---- MODULE Spec2Model ----
(***************************************************************************)
(* PlaywrightMcpManager (src/src/runtime/httpClient.ts, lines 53-237):     *)
(* the supervisor of the browser-automation subprocess, the cached client  *)
(* negotiation and the screenshot pipeline, as a state machine (Spec); and *)
(* the module-level functions findAvailablePort and buildPlaywrightArgs    *)
(* and the response handling of takeScreenshot, each applied on its own to *)
(* arguments drawn from bounded sets (PureSpec).                           *)
(*                                                                         *)
(* JavaScript runs one callback at a time.  A caller that awaits a promise *)
(* is resumed by a microtask once the promise has settled; microtasks run  *)
(* first in, first out, and the callers awaiting one promise are resumed   *)
(* in the order in which they began to await it.  Events of the            *)
(* environment (a subprocess exit, a timer, the completion of socket or    *)
(* file I/O) are macrotasks and run only when the microtask queue is       *)
(* empty.  The code calling the public methods runs in a macrotask of its  *)
(* own or, once one of its calls has settled, anywhere later in the queue. *)
(***************************************************************************)
EXTENDS Integers, FiniteSets, Sequences, TLC

\* ------------------------------------------------------------------ bounds
NumThreads == 2     \* concurrent callers of the public methods
MaxCalls   == 3     \* calls of public methods per run
MaxPort    == 4     \* highest port of the ranges findAvailablePort is applied to
MaxBlocks  == 2     \* content blocks of a tool response
MaxSeconds == 62    \* timeout_ms ranges over -2000 .. MaxSeconds * 1000, each +-1
PortStart  == 1     \* config.port_start
PortEnd    == 2     \* config.port_end

Threads == 1..NumThreads
\* A call begins at most one startServer() and at most one createClient().
Starts  == 1..MaxCalls
Clients == 1..MaxCalls
Ports   == PortStart..PortEnd
NoPort  == 0

VARIABLES
  startPromise,   \* this.startPromise: 0 (null) or the start attempt cached
  clientPromise,  \* this.clientPromise: 0 (null) or the negotiation cached
  sst,            \* start attempt -> "none" | "scan" | "wait" | "ok" | "fail"
  port,           \* port of the attempt's ServerInfo (NoPort before the scan)
  cst,            \* child of the attempt -> "none" | "run" | "code" | "signal"
  killed,         \* child.killed
  sigs,           \* signals delivered to the child
  timer,          \* the 2 s escalation timer of the child is pending
  nTerm,          \* SIGTERMs delivered to the child
  cl,             \* negotiation -> "none" | "primary" | "fallback" | "ok" | "fail"
  clSrv,          \* the start attempt whose ServerInfo the negotiation targets
  clPath,         \* path of the url the negotiation's current transport connects to
  clClosed,       \* client.close() was called on the session
  closeErr,       \* client.close() of the session threw
  pc,             \* position of each caller
  op,             \* public method the caller is in
  waitS,          \* start attempt the caller awaits / whose info it holds
  waitC,          \* negotiation the caller awaits / whose client it holds
  res,            \* how the caller's call settled (while pc is "done")
  deadAt,         \* children exited or marked killed when the call was issued
  pendAt,         \* start attempts pending when the call was issued
  issuedFailed,   \* the start the call joined had already failed
  joinedFailed,   \* the negotiation the call joined had already failed
  nCalls,         \* public calls issued so far
  mq,             \* the microtask queue: callers about to be resumed
  regs,           \* callers awaiting an unsettled promise, in the order they began
  ext,            \* calling code may run among the queued microtasks
  fn,             \* the module-level function applied on its own ("none" in Spec)
  arg,            \* its arguments and the outcomes of the I/O it performs
  ret             \* what it returned, once applied

mgr     == <<startPromise, clientPromise>>
child   == <<port, cst, killed, sigs, timer, nTerm>>
clients == <<cl, clSrv, clPath, clClosed, closeErr>>
hist    == <<deadAt, pendAt, issuedFailed, joinedFailed, nCalls>>
locals  == <<op, waitS, waitC, res>>
sched   == <<mq, regs, ext>>
pure    == <<fn, arg, ret>>
manager == <<mgr, sst, child, clients, pc, locals, hist, sched>>
vars    == <<startPromise, clientPromise, sst, port, cst, killed, sigs, timer, nTerm,
             cl, clSrv, clPath, clClosed, closeErr, pc, op, waitS, waitC, res, deadAt, pendAt, issuedFailed, joinedFailed,
             nCalls, mq, regs, ext, fn, arg, ret>>

\* The manager as constructed; no call has been made.
InitManager ==
  /\ startPromise = 0
  /\ clientPromise = 0
  /\ sst = [a \in Starts |-> "none"]
  /\ port = [a \in Starts |-> NoPort]
  /\ cst = [a \in Starts |-> "none"]
  /\ killed = [a \in Starts |-> FALSE]
  /\ sigs = [a \in Starts |-> {}]
  /\ timer = [a \in Starts |-> FALSE]
  /\ nTerm = [a \in Starts |-> 0]
  /\ cl = [k \in Clients |-> "none"]
  /\ clSrv = [k \in Clients |-> 0]
  /\ clPath = [k \in Clients |-> <<>>]
  /\ clClosed = [k \in Clients |-> FALSE]
  /\ closeErr = [k \in Clients |-> FALSE]
  /\ pc = [t \in Threads |-> "idle"]
  /\ op = [t \in Threads |-> "none"]
  /\ waitS = [t \in Threads |-> 0]
  /\ waitC = [t \in Threads |-> 0]
  /\ res = [t \in Threads |-> "none"]
  /\ deadAt = [t \in Threads |-> {}]
  /\ pendAt = [t \in Threads |-> {}]
  /\ joinedFailed = [t \in Threads |-> FALSE]
  /\ issuedFailed = [t \in Threads |-> FALSE]
  /\ nCalls = 0
  /\ mq = <<>>
  /\ regs = <<>>
  /\ ext = FALSE

NotApplied == [done |-> FALSE]

Init ==
  /\ InitManager
  /\ fn = "none"
  /\ arg = [none |-> TRUE]
  /\ ret = NotApplied

\* ------------------------------------------------------------ scheduling
StartSettled(a)  == sst[a] \in {"ok", "fail"}
ClientSettled(k) == cl[k] \in {"ok", "fail"}

\* Caller t is the one whose microtask runs next.
Turn(t) == mq # <<>> /\ Head(mq) = t

\* Macrotasks run with the microtask queue drained.
NoMicrotask == mq = <<>>

\* Calling code runs in a macrotask, or after one of its calls has settled.
CallerRuns == mq = <<>> \/ ext

\* What a call leaves of the calling code's turn.
CallExt == ext' = (mq' # <<>>)

\* `await p` by caller t, the queue being q otherwise: p settled queues the
\* continuation at once, p pending leaves t waiting for it.
AwaitOn(q, t, settled) ==
  IF settled
  THEN mq' = Append(q, t) /\ UNCHANGED regs
  ELSE mq' = q /\ regs' = Append(regs, t)

\* The continuation of t is queued behind the microtasks already waiting.
Requeue(t) == mq' = Append(Tail(mq), t) /\ UNCHANGED regs

AwaitsStart(t, a)  == pc[t] \in {"E_await1", "E_await2", "S_awaitS"} /\ waitS[t] = a
AwaitsClient(t, k) == pc[t] \in {"T_awaitC", "S_awaitC"} /\ waitC[t] = k

\* A start attempt / a negotiation settles in a macrotask: the callers that
\* await it are queued in the order in which they began to wait.
WakeStart(a) ==
  /\ mq' = SelectSeq(regs, LAMBDA t : AwaitsStart(t, a))
  /\ regs' = SelectSeq(regs, LAMBDA t : ~AwaitsStart(t, a))
WakeClient(k) ==
  /\ mq' = SelectSeq(regs, LAMBDA t : AwaitsClient(t, k))
  /\ regs' = SelectSeq(regs, LAMBDA t : ~AwaitsClient(t, k))

\* ---------------------------------------------------------------- helpers
CanStart  == \E a \in Starts : sst[a] = "none"
NextStart == CHOOSE a \in Starts : sst[a] = "none" /\ \A b \in Starts : b < a => sst[b] # "none"
CanClient  == \E k \in Clients : cl[k] = "none"
NextClient == CHOOSE k \in Clients : cl[k] = "none" /\ \A j \in Clients : j < k => cl[j] # "none"

Exited(c) == cst[c] \in {"code", "signal"}
\* child.exitCode === null: no exit yet, or terminated by a signal.
ExitCodeNull(c) == cst[c] # "code"

\* line 62: !started.child.killed && started.child.exitCode === null
StillAlive_NoCheck(c) == TRUE
StillAlive(c) == ~killed[c] /\ ExitCodeNull(c)

\* lines 336-345: a test listener binds on port p unless the port is in use
tryPort_Any(p, busy) == TRUE
tryPort(p, busy) == p \notin busy

\* lines 329-333: the loop of findAvailablePort from port p on: the port found
\* (NoPort for the error thrown at line 333) and the ports probed, in order
RECURSIVE ScanPorts(_, _, _, _)
ScanPorts(p, end, busy, probed) ==
  IF p > end THEN [port |-> NoPort, probed |-> probed]
  ELSE IF tryPort(p, busy) THEN [port |-> p, probed |-> Append(probed, p)]
  ELSE ScanPorts(p + 1, end, busy, Append(probed, p))

\* lines 328-334, with the ports in use on the host given as busy
findAvailablePort(start, end, busy) == ScanPorts(start, end, busy, <<>>)

\* child.kill(sig): delivered, and child.killed set, only while the process runs
KilledAfter(c, sig) == IF cst[c] = "run" THEN [killed EXCEPT ![c] = TRUE] ELSE killed
SigsAfter(c, sig)   == IF cst[c] = "run" THEN [sigs EXCEPT ![c] = @ \cup {sig}] ELSE sigs
TermsAfter(c)       == IF cst[c] = "run" THEN [nTerm EXCEPT ![c] = @ + 1] ELSE nTerm

\* lines 66-70: the .catch() handler of the start attempt
StartPromiseAfterCatch_Keep == startPromise
StartPromiseAfterCatch == 0

DeadNow   == {c \in Starts : Exited(c) \/ killed[c]}
FailedNow == {a \in Starts : sst[a] = "fail"}
Pending(a) == sst[a] \in {"scan", "wait"}
PendingNow == {a \in Starts : Pending(a)}

\* ------------------------------------------------------ ensureServer (59-73)
\* Bookkeeping of a call being issued by caller t.
Issue(t, o) ==
  /\ pc[t] = "idle"
  /\ \A u \in Threads : u < t => pc[u] # "idle"   \* callers are interchangeable
  /\ CallerRuns
  /\ nCalls < MaxCalls
  /\ nCalls' = nCalls + 1
  /\ op' = [op EXCEPT ![t] = o]
  /\ deadAt' = [deadAt EXCEPT ![t] = DeadNow]
  /\ pendAt' = [pendAt EXCEPT ![t] = IF o = "stop" THEN {} ELSE PendingNow]
  /\ issuedFailed' = [issuedFailed EXCEPT ![t] = o # "stop" /\ startPromise \in FailedNow]
  /\ UNCHANGED joinedFailed

\* lines 60-61 and 66-71, up to the first await: join the cached start, or
\* begin one (startServer() runs to its first await and is cached at once).
EnsureServerEntry(t, o) ==
  /\ Issue(t, o)
  /\ UNCHANGED <<waitC, res>>
  /\ IF startPromise # 0
     THEN /\ pc' = [pc EXCEPT ![t] = "E_await1"]
          /\ waitS' = [waitS EXCEPT ![t] = startPromise]
          /\ AwaitOn(mq, t, StartSettled(startPromise))
          /\ UNCHANGED <<startPromise, sst>>
     ELSE /\ CanStart
          /\ pc' = [pc EXCEPT ![t] = "E_await2"]
          /\ waitS' = [waitS EXCEPT ![t] = NextStart]
          /\ sst' = [sst EXCEPT ![NextStart] = "scan"]
          /\ startPromise' = NextStart
          /\ AwaitOn(mq, t, FALSE)
  /\ CallExt
  /\ UNCHANGED <<clientPromise, child, clients>>
  /\ UNCHANGED pure

CallEnsureServer(t) == EnsureServerEntry(t, "ensureServer")

\* ensureServer() settles: the public call is over, or takeScreenshot goes on.
Rejected(t) ==
  /\ pc' = [pc EXCEPT ![t] = "done"]
  /\ res' = [res EXCEPT ![t] = "rejStart"]

Returned(t) ==
  IF op[t] = "takeScreenshot"
  THEN pc' = [pc EXCEPT ![t] = "T_afterServer"] /\ UNCHANGED res
  ELSE pc' = [pc EXCEPT ![t] = "done"] /\ res' = [res EXCEPT ![t] = "info"]

\* A microtask that is not the calling code's own.
KeepExt == ext' = (ext /\ mq' # <<>>)

\* line 64: the cached negotiation is dropped with the dead start
ClientPromiseAfterStale_Keep == clientPromise
ClientPromiseAfterStale == 0

\* lines 61-71: resumed after `await this.startPromise` of the cached start
ResumeCachedStart(t) ==
  /\ pc[t] = "E_await1"
  /\ Turn(t)
  /\ IF sst[waitS[t]] = "fail"
     THEN Rejected(t) /\ Requeue(t) /\ UNCHANGED <<mgr, sst, waitS>>
     ELSE IF StillAlive(waitS[t])
     THEN Returned(t) /\ Requeue(t) /\ UNCHANGED <<mgr, sst, waitS>>
     ELSE /\ CanStart
          /\ pc' = [pc EXCEPT ![t] = "E_await2"]
          /\ waitS' = [waitS EXCEPT ![t] = NextStart]
          /\ sst' = [sst EXCEPT ![NextStart] = "scan"]
          /\ startPromise' = NextStart
          /\ clientPromise' = ClientPromiseAfterStale
          /\ AwaitOn(Tail(mq), t, FALSE)
          /\ UNCHANGED res
  /\ KeepExt
  /\ UNCHANGED <<child, clients, op, waitC, hist>>
  /\ UNCHANGED pure

\* lines 71-72: resumed after awaiting the start this call began
ResumeOwnStart(t) ==
  /\ pc[t] = "E_await2"
  /\ Turn(t)
  /\ IF sst[waitS[t]] = "fail" THEN Rejected(t) ELSE Returned(t)
  /\ Requeue(t)
  /\ KeepExt
  /\ UNCHANGED <<mgr, sst, child, clients, op, waitS, waitC, hist>>
  /\ UNCHANGED pure

\* ------------------------------------------------------ startServer (169-236)
\* The rejection of startServer() followed by the .catch() handler (66-70);
\* then the callers awaiting the attempt are resumed.
StartFails(a) ==
  /\ sst' = [sst EXCEPT ![a] = "fail"]
  /\ startPromise' = StartPromiseAfterCatch
  /\ clientPromise' = 0
  /\ WakeStart(a)

\* Ports on which the probe of tryPort (336-345) cannot bind: those held by
\* the manager's own running subprocesses, or, with other programs holding
\* the rest, the whole range.
BusyPorts == {{port[c] : c \in {d \in Starts : cst[d] = "run"}}, Ports}

\* lines 170-196: both mkdir, the port scan, spawn and attaching the exit handler
ScanAndSpawn(a) ==
  /\ sst[a] = "scan"
  /\ NoMicrotask
  /\ \E mkdirOk \in BOOLEAN, busy \in BusyPorts :
       IF mkdirOk /\ findAvailablePort(PortStart, PortEnd, busy).port # NoPort
       THEN /\ sst' = [sst EXCEPT ![a] = "wait"]
            /\ port' = [port EXCEPT ![a] = findAvailablePort(PortStart, PortEnd, busy).port]
            /\ cst' = [cst EXCEPT ![a] = "run"]
            /\ UNCHANGED <<mgr, mq, regs>>
       ELSE StartFails(a) /\ UNCHANGED <<port, cst>>
  /\ UNCHANGED <<killed, sigs, timer, nTerm, clients, pc, locals, hist, ext>>
  /\ UNCHANGED pure

\* lines 212, 229-235: something accepts connections on the port
PortOpens(a) ==
  /\ sst[a] = "wait"
  /\ NoMicrotask
  /\ sst' = [sst EXCEPT ![a] = "ok"]
  /\ WakeStart(a)
  /\ UNCHANGED <<mgr, child, clients, pc, locals, hist, ext>>
  /\ UNCHANGED pure

\* lines 213-228: the deadline passes: SIGTERM, arm the 2 s timer, rethrow
StartTimeout(a) ==
  /\ sst[a] = "wait"
  /\ NoMicrotask
  /\ killed' = KilledAfter(a, "SIGTERM")
  /\ sigs' = SigsAfter(a, "SIGTERM")
  /\ nTerm' = TermsAfter(a)
  /\ timer' = [timer EXCEPT ![a] = TRUE]
  /\ StartFails(a)
  /\ UNCHANGED <<port, cst, clients, pc, locals, hist, ext>>
  /\ UNCHANGED pure

\* child.exitCode is read only at line 62, by a caller that awaited the start
\* while it was pending: once the start has settled and no such caller is
\* left, an exit with a code and one by a signal behave alike.
ExitKinds(c) ==
  IF sst[c] = "wait" \/ \E t \in Threads : pc[t] = "E_await1" /\ waitS[t] = c
  THEN {"code", "signal"} ELSE {"code"}

\* lines 205-209: the subprocess exits and its exit handler runs
ChildExit(c) ==
  /\ cst[c] = "run"
  /\ NoMicrotask
  /\ \E how \in ExitKinds(c) : cst' = [cst EXCEPT ![c] = how]
  /\ startPromise' = 0
  /\ clientPromise' = 0
  /\ UNCHANGED <<sst, port, killed, sigs, timer, nTerm, clients, pc, locals, hist, sched>>
  /\ UNCHANGED pure

\* lines 87-89 and 220-226: the escalation timer fires
TimerFires(c) ==
  /\ timer[c]
  /\ NoMicrotask
  /\ timer' = [timer EXCEPT ![c] = FALSE]
  /\ IF ~killed[c]
     THEN killed' = KilledAfter(c, "SIGKILL") /\ sigs' = SigsAfter(c, "SIGKILL")
     ELSE UNCHANGED <<killed, sigs>>
  /\ UNCHANGED <<mgr, sst, port, cst, nTerm, clients, pc, locals, hist, sched>>
  /\ UNCHANGED pure

\* -------------------------------------- ensureClient, createClient (146-167)
CallTakeScreenshot(t) == EnsureServerEntry(t, "takeScreenshot")

\* line 231: the path of info.url, http://host:port/mcp, as its segments
McpPath == <<"mcp">>

\* lines 162-163: pathname.replace(/\/mcp$/, "") + "/sse"
SsePath(path) ==
  IF Len(path) > 0 /\ path[Len(path)] = "mcp"
  THEN Append(SubSeq(path, 1, Len(path) - 1), "sse")
  ELSE Append(path, "sse")

\* lines 158-160: a failure of the primary connect is logged, not thrown
AfterPrimaryFailure_Throw == "fail"
AfterPrimaryFailure == "fallback"

\* line 147: the cached negotiation, if any, is handed out as it is
CachedClient == clientPromise

\* lines 94-95, 146-156: takeScreenshot resumes with the ServerInfo and calls
\* ensureClient(server): the cached negotiation, or a new one begun on the
\* primary transport and cached.
EnsureClient(t) ==
  /\ pc[t] = "T_afterServer"
  /\ Turn(t)
  /\ pc' = [pc EXCEPT ![t] = "T_awaitC"]
  /\ IF CachedClient # 0
     THEN /\ waitC' = [waitC EXCEPT ![t] = CachedClient]
          /\ AwaitOn(Tail(mq), t, ClientSettled(CachedClient))
          /\ UNCHANGED <<clientPromise, cl, clSrv, clPath>>
     ELSE /\ CanClient
          /\ waitC' = [waitC EXCEPT ![t] = NextClient]
          /\ cl' = [cl EXCEPT ![NextClient] = "primary"]
          /\ clSrv' = [clSrv EXCEPT ![NextClient] = waitS[t]]
          /\ clPath' = [clPath EXCEPT ![NextClient] = McpPath]
          /\ clientPromise' = NextClient
          /\ AwaitOn(Tail(mq), t, FALSE)
  /\ joinedFailed' = [joinedFailed EXCEPT ![t] = CachedClient # 0 /\ cl[CachedClient] = "fail"]
  /\ KeepExt
  /\ UNCHANGED <<startPromise, sst, child, clClosed, closeErr, op, waitS, res, deadAt, pendAt, issuedFailed, nCalls>>
  /\ UNCHANGED pure

\* lines 155-160: the streamable HTTP connect settles; a failure is logged as a
\* warning and the SSE fallback is tried
PrimaryConnect(k) ==
  /\ cl[k] = "primary"
  /\ NoMicrotask
  /\ \E ok \in BOOLEAN :
       IF ok
       THEN cl' = [cl EXCEPT ![k] = "ok"] /\ WakeClient(k) /\ UNCHANGED clPath
       ELSE /\ cl' = [cl EXCEPT ![k] = AfterPrimaryFailure]
            /\ clPath' = [clPath EXCEPT ![k] = SsePath(@)]
            /\ UNCHANGED <<mq, regs>>
  /\ UNCHANGED <<mgr, sst, child, clSrv, clClosed, closeErr, pc, locals, hist, ext>>
  /\ UNCHANGED pure

\* lines 162-166: the SSE connect settles; its failure rejects createClient().
\* Nothing clears this.clientPromise when that happens.
FallbackConnect(k) ==
  /\ cl[k] = "fallback"
  /\ NoMicrotask
  /\ \E ok \in BOOLEAN : cl' = [cl EXCEPT ![k] = IF ok THEN "ok" ELSE "fail"]
  /\ WakeClient(k)
  /\ UNCHANGED <<mgr, sst, child, clSrv, clPath, clClosed, closeErr, pc, locals, hist, ext>>
  /\ UNCHANGED pure

\* ---------------------------------------------------- takeScreenshot (93-144)
\* lines 95-99: resumed after `await this.ensureClient(server)`; a rejection
\* propagates, otherwise the file name is built and mkdir is awaited
ResumeClient(t) ==
  /\ pc[t] = "T_awaitC"
  /\ Turn(t)
  /\ IF cl[waitC[t]] = "fail"
     THEN pc' = [pc EXCEPT ![t] = "done"] /\ res' = [res EXCEPT ![t] = "rejClient"] /\ Requeue(t)
     ELSE pc' = [pc EXCEPT ![t] = "T_mkdir"] /\ mq' = Tail(mq) /\ UNCHANGED <<res, regs>>
  /\ KeepExt
  /\ UNCHANGED <<mgr, sst, child, clients, op, waitS, waitC, hist>>
  /\ UNCHANGED pure

\* lines 99-101: mkdir settles outside the try block: its failure rejects
\* takeScreenshot(); on success client.callTool() is invoked
MkdirDone(t) ==
  /\ pc[t] = "T_mkdir"
  /\ NoMicrotask
  /\ \E ok \in BOOLEAN :
       IF ok
       THEN pc' = [pc EXCEPT ![t] = "T_call"] /\ UNCHANGED <<res, mq>>
       ELSE pc' = [pc EXCEPT ![t] = "done"] /\ res' = [res EXCEPT ![t] = "rejMkdir"] /\ mq' = <<t>>
  /\ UNCHANGED <<mgr, sst, child, clients, op, waitS, waitC, hist, regs, ext>>
  /\ UNCHANGED pure

\* The content blocks the code tells apart (lines 113-128): an image block
\* whose data is no string, the empty string or base64 text, and whose mimeType
\* is a string or not; a text block whose text holds a markdown link or none;
\* any other block.
ImageBlocks == [type : {"image"}, data : {"none", "empty", "base64"},
                mime : {"none", "image/png"}, link : {FALSE}]
TextBlocks  == [type : {"text"}, data : {"none"}, mime : {"none"}, link : BOOLEAN]
OtherBlocks == [type : {"other"}, data : {"none"}, mime : {"none"}, link : {FALSE}]
Blocks      == ImageBlocks \cup TextBlocks \cup OtherBlocks
NoBlock     == [type |-> "none", data |-> "none", mime |-> "none", link |-> FALSE]

\* A tool response: isError and the content array (empty also for a content
\* that is no array).
Contents  == UNION {[1..n -> Blocks] : n \in 0..MaxBlocks}
Responses == [isError : BOOLEAN, content : Contents]

\* Array.prototype.find (lines 114, 126): the first block of the type
FirstOfType(content, type) ==
  LET at == {i \in DOMAIN content : content[i].type = type}
  IN IF at = {} THEN NoBlock
     ELSE content[CHOOSE i \in at : \A j \in at : i <= j]

\* line 107: res?.isError === true
IsToolError_Never(r) == FALSE
IsToolError(r) == r.isError

\* lines 118-119: data is a string, and not the empty one
HasImageData_Never(b) == FALSE
HasImageData(b) == b.data = "base64"

\* lines 128-129: [linkedPath, expectedPath] without a null linkedPath
Candidates_ExpectedFirst(linked) == <<"expected">> \o (IF linked THEN <<"linked">> ELSE <<>>)
Candidates_LinkOnly(linked) == IF linked THEN <<"linked">> ELSE <<>>
Candidates(linked) == (IF linked THEN <<"linked">> ELSE <<>>) \o <<"expected">>

\* lines 130-137: access() each candidate in order until one exists
RECURSIVE FirstExisting(_, _, _)
FirstExisting(cands, existing, probed) ==
  IF cands = <<>> THEN [saved |-> "null", probed |-> probed]
  ELSE IF Head(cands) \in existing
  THEN [saved |-> Head(cands), probed |-> Append(probed, Head(cands))]
  ELSE FirstExisting(Tail(cands), existing, Append(probed, Head(cands)))

\* lines 107-139: what takeScreenshot makes of response r, given whether
\* writeFile succeeds and which of the linked and the expected file exist:
\* saved is "null" or the savedPath ("expected" or "linked"), mimeType that of
\* the result, wrote tells whether a file was written, probed lists the paths
\* access() was called on
Interpret(r, writeOk, linkExists, expectedExists) ==
  LET imageBlock == FirstOfType(r.content, "image")
      fromText   == FirstOfType(r.content, "text")
      existing   == (IF linkExists THEN {"linked"} ELSE {}) \cup
                    (IF expectedExists THEN {"expected"} ELSE {})
      found      == FirstExisting(Candidates(fromText.link), existing, <<>>)
  IN IF IsToolError(r)
     THEN [saved |-> "null", mimeType |-> "none", wrote |-> FALSE, probed |-> <<>>]
     ELSE IF HasImageData(imageBlock)
     THEN [saved |-> IF writeOk THEN "expected" ELSE "null",
           mimeType |-> IF writeOk THEN imageBlock.mime ELSE "none",
           wrote |-> writeOk, probed |-> <<>>]
     ELSE [saved |-> found.saved,
           mimeType |-> IF found.saved = "null" THEN "none" ELSE imageBlock.mime,
           wrote |-> FALSE, probed |-> found.probed]

\* What takeScreenshot can return once callTool has settled; a throw of
\* callTool is caught at lines 140-142.
ScreenshotOutcomes ==
  {"null"} \cup {Interpret(r, w, l, e).saved : r \in Responses, w \in BOOLEAN, l \in BOOLEAN, e \in BOOLEAN}

\* lines 101-143: callTool settles (a throw is caught at 140-142), the response
\* is interpreted, the file is written or the candidates are probed
CallDone(t) ==
  /\ pc[t] = "T_call"
  /\ NoMicrotask
  /\ pc' = [pc EXCEPT ![t] = "done"]
  /\ \E out \in ScreenshotOutcomes : res' = [res EXCEPT ![t] = out]
  /\ mq' = <<t>>
  /\ UNCHANGED <<mgr, sst, child, clients, op, waitS, waitC, hist, regs, ext>>
  /\ UNCHANGED pure

\* ------------------------------------------------------------- stop (75-91)
\* line 84, up to the next await: read this.startPromise; with none cached
\* stop() is over
StopReadsStart(q, t) ==
  IF startPromise # 0
  THEN /\ pc' = [pc EXCEPT ![t] = "S_awaitS"]
       /\ waitS' = [waitS EXCEPT ![t] = startPromise]
       /\ AwaitOn(q, t, StartSettled(startPromise))
       /\ UNCHANGED res
  ELSE /\ pc' = [pc EXCEPT ![t] = "done"]
       /\ res' = [res EXCEPT ![t] = "void"]
       /\ mq' = Append(q, t)
       /\ UNCHANGED <<waitS, regs>>

\* lines 76, 84: with nothing cached stop() runs to its end without awaiting
CallStop(t) ==
  /\ Issue(t, "stop")
  /\ waitC' = [waitC EXCEPT ![t] = clientPromise]
  /\ IF clientPromise # 0
     THEN /\ pc' = [pc EXCEPT ![t] = "S_awaitC"]
          /\ AwaitOn(mq, t, ClientSettled(clientPromise))
          /\ UNCHANGED <<waitS, res>>
     ELSE StopReadsStart(mq, t)
  /\ CallExt
  /\ UNCHANGED <<mgr, sst, child, clients>>
  /\ UNCHANGED pure

\* lines 76, 84: the handler of .catch(() => null) runs when the cached
\* promise has settled; stop() itself is resumed one microtask later
CatchHop(t) ==
  /\ pc[t] \in {"S_awaitC", "S_awaitS"}
  /\ Turn(t)
  /\ pc' = [pc EXCEPT ![t] = IF pc[t] = "S_awaitC" THEN "S_resumeC" ELSE "S_resumeS"]
  /\ Requeue(t)
  /\ KeepExt
  /\ UNCHANGED <<mgr, sst, child, clients, locals, hist>>
  /\ UNCHANGED pure

\* lines 76-79: resumed with the client (null if the negotiation failed);
\* a client is closed
ResumeStopClient(t) ==
  /\ pc[t] = "S_resumeC"
  /\ Turn(t)
  /\ IF cl[waitC[t]] = "ok"
     THEN /\ clClosed' = [clClosed EXCEPT ![waitC[t]] = TRUE]
          /\ pc' = [pc EXCEPT ![t] = "S_close"]
          /\ mq' = Tail(mq)
          /\ UNCHANGED <<waitS, res, regs>>
     ELSE StopReadsStart(Tail(mq), t) /\ UNCHANGED clClosed
  /\ KeepExt
  /\ UNCHANGED <<mgr, sst, child, cl, clSrv, clPath, closeErr, op, waitC, hist>>
  /\ UNCHANGED pure

\* lines 79-84: close() settles; an error it throws is swallowed (80-82)
CloseDone(t) ==
  /\ pc[t] = "S_close"
  /\ NoMicrotask
  /\ \E threw \in BOOLEAN : closeErr' = [closeErr EXCEPT ![waitC[t]] = threw]
  /\ StopReadsStart(<<>>, t)
  /\ UNCHANGED <<mgr, sst, child, cl, clSrv, clPath, clClosed, op, waitC, hist, ext>>
  /\ UNCHANGED pure

\* lines 84-90: resumed with the started process (null if the start failed):
\* unless child.killed, SIGTERM is sent and the 2 s timer armed
StopKills_Always(c) == sst[c] = "ok"
StopKills(c) == sst[c] = "ok" /\ ~killed[c]

ResumeStopStart(t) ==
  /\ pc[t] = "S_resumeS"
  /\ Turn(t)
  /\ IF StopKills(waitS[t])
     THEN /\ killed' = KilledAfter(waitS[t], "SIGTERM")
          /\ sigs' = SigsAfter(waitS[t], "SIGTERM")
          /\ nTerm' = TermsAfter(waitS[t])
          /\ timer' = [timer EXCEPT ![waitS[t]] = TRUE]
     ELSE UNCHANGED <<killed, sigs, nTerm, timer>>
  /\ pc' = [pc EXCEPT ![t] = "done"]
  /\ res' = [res EXCEPT ![t] = "void"]
  /\ Requeue(t)
  /\ KeepExt
  /\ UNCHANGED <<mgr, sst, port, cst, clients, op, waitS, waitC, hist>>
  /\ UNCHANGED pure

\* The caller's own continuation runs; the caller may call again.
Settle(t) ==
  /\ pc[t] = "done"
  /\ Turn(t)
  /\ pc' = [pc EXCEPT ![t] = "idle"]
  /\ op' = [op EXCEPT ![t] = "none"]
  /\ waitS' = [waitS EXCEPT ![t] = 0]
  /\ waitC' = [waitC EXCEPT ![t] = 0]
  /\ res' = [res EXCEPT ![t] = "none"]
  /\ deadAt' = [deadAt EXCEPT ![t] = {}]
  /\ pendAt' = [pendAt EXCEPT ![t] = {}]
  /\ joinedFailed' = [joinedFailed EXCEPT ![t] = FALSE]
  /\ issuedFailed' = [issuedFailed EXCEPT ![t] = FALSE]
  /\ mq' = Tail(mq)
  /\ ext' = (mq' # <<>>)
  /\ UNCHANGED <<mgr, sst, child, clients, nCalls, regs>>
  /\ UNCHANGED pure

\* ------------------------------------------------------------ specification
Next ==
  \/ \E t \in Threads : CallEnsureServer(t)
  \/ \E t \in Threads : CallTakeScreenshot(t)
  \/ \E t \in Threads : CallStop(t)
  \/ \E t \in Threads : ResumeCachedStart(t)
  \/ \E t \in Threads : ResumeOwnStart(t)
  \/ \E t \in Threads : EnsureClient(t)
  \/ \E t \in Threads : ResumeClient(t)
  \/ \E t \in Threads : MkdirDone(t)
  \/ \E t \in Threads : CallDone(t)
  \/ \E t \in Threads : CatchHop(t)
  \/ \E t \in Threads : ResumeStopClient(t)
  \/ \E t \in Threads : CloseDone(t)
  \/ \E t \in Threads : ResumeStopStart(t)
  \/ \E t \in Threads : Settle(t)
  \/ \E a \in Starts : ScanAndSpawn(a)
  \/ \E a \in Starts : PortOpens(a)
  \/ \E a \in Starts : StartTimeout(a)
  \/ \E c \in Starts : ChildExit(c)
  \/ \E c \in Starts : TimerFires(c)
  \/ \E k \in Clients : PrimaryConnect(k)
  \/ \E k \in Clients : FallbackConnect(k)

Spec == Init /\ [][Next]_vars

\* ------------------------------------------- the module-level functions
\* findAvailablePort applied to a range and a set of ports in use.
PortCalls == [start : 1..MaxPort, end : 0..MaxPort, busy : SUBSET (1..MaxPort)]

ApplyFindAvailablePort ==
  /\ fn = "findAvailablePort"
  /\ ~ret.done
  /\ LET r == findAvailablePort(arg.start, arg.end, arg.busy)
     IN ret' = [done |-> TRUE, port |-> r.port, probed |-> r.probed]
  /\ UNCHANGED <<fn, arg, manager>>

\* line 319: the bounds of the navigation timeout
NavTimeoutMin == 1000
NavTimeoutMax == 60000

Min(a, b) == IF a < b THEN a ELSE b    \* Math.min
Max(a, b) == IF a > b THEN a ELSE b    \* Math.max

\* line 319: Math.max(1_000, Math.min(opts.timeoutMs, 60_000))
NavigationTimeout_NoFloor(timeoutMs) == Min(timeoutMs, NavTimeoutMax)
NavigationTimeout(timeoutMs) == Max(NavTimeoutMin, Min(timeoutMs, NavTimeoutMax))

\* lines 300-325: the argument list; the options that are passed through
\* unchanged stand for themselves
buildPlaywrightArgs(opts) ==
  <<"-y", "pkg", "--browser", "browser", "--host", "host", "--port", "port",
    "--user-data-dir", "userDataDir", "--output-dir", "outputDir",
    "--snapshot-mode", "snapshotMode", "--image-responses", "imageResponses",
    "--shared-browser-context",
    "--timeout-navigation", ToString(NavigationTimeout(opts.timeoutMs))>>
  \o (IF opts.executablePath THEN <<"--executable-path", "executablePath">> ELSE <<>>)
  \o (IF opts.headless THEN <<"--headless">> ELSE <<>>)

\* buildPlaywrightArgs applied to a configuration: timeout_ms below, at and
\* above every multiple of 1000 from -2000 on, zero and negatives included.
Timeouts == {k * 1000 + d : k \in -2..MaxSeconds, d \in {-1, 0, 1}}
ArgsCalls == [timeoutMs : Timeouts, executablePath : BOOLEAN, headless : BOOLEAN]

ApplyBuildPlaywrightArgs ==
  /\ fn = "buildPlaywrightArgs"
  /\ ~ret.done
  /\ ret' = [done |-> TRUE, args |-> buildPlaywrightArgs(arg)]
  /\ UNCHANGED <<fn, arg, manager>>

\* Lines 107-139 of takeScreenshot applied to a tool response.
InterpretCalls ==
  [res : Responses, writeOk : BOOLEAN, linkExists : BOOLEAN, expectedExists : BOOLEAN]

ApplyInterpret ==
  /\ fn = "interpret"
  /\ ~ret.done
  /\ LET r == Interpret(arg.res, arg.writeOk, arg.linkExists, arg.expectedExists)
     IN ret' = [done |-> TRUE, saved |-> r.saved, mimeType |-> r.mimeType,
                wrote |-> r.wrote, probed |-> r.probed]
  /\ UNCHANGED <<fn, arg, manager>>

InitPure ==
  /\ InitManager
  /\ ret = NotApplied
  /\ \/ fn = "findAvailablePort" /\ arg \in PortCalls
     \/ fn = "interpret" /\ arg \in InterpretCalls
     \/ fn = "buildPlaywrightArgs" /\ arg \in ArgsCalls

NextPure ==
  \/ ApplyFindAvailablePort
  \/ ApplyInterpret
  \/ ApplyBuildPlaywrightArgs

PureSpec == InitPure /\ [][NextPure]_vars

\* ------------------------------------------------------------------ claims
Awaiting(t)  == pc[t] \in {"E_await1", "E_await2"}
\* ensureServer() has returned its ServerInfo to caller t.
HoldsInfo(t) ==
  \/ pc[t] \in {"T_afterServer", "T_awaitC", "T_mkdir", "T_call"}
  \/ pc[t] = "done" /\ op[t] = "ensureServer" /\ res[t] = "info"
  \/ pc[t] = "done" /\ op[t] = "takeScreenshot" /\ res[t] # "rejStart"
Running(c)    == cst[c] = "run"
Unsignalled(c) == Running(c) /\ sigs[c] = {}

\* C1: single-flight start: a call of ensureServer() issued while a start
\* attempt is pending joins that attempt and settles as it does, so the
\* attempts pending when the call was issued are at most the one it awaits
\* (or whose outcome it got), and no second subprocess is spawned for it.
C1_SingleFlightStart ==
  \A t \in Threads :
    (Awaiting(t) \/ HoldsInfo(t) \/ (pc[t] = "done" /\ res[t] = "rejStart"))
      => pendAt[t] \subseteq {waitS[t]}

\* C2: at most one subprocess per manager.  The claim counts the spawned
\* subprocesses that have not exited; this counts only those that have
\* neither exited nor been sent a signal, which the claim implies.
C2_AtMostOneSubprocess ==
  Cardinality({c \in Starts : Unsignalled(c)}) <= 1

\* C3: once the subprocess of a completed start has exited or is marked
\* killed, a call of ensureServer() issued afterwards never returns the
\* ServerInfo of that subprocess: what it returns comes from another start.
C3_NoStaleServerInfo ==
  \A t \in Threads : HoldsInfo(t) => waitS[t] \notin deadAt[t]

\* C3's case: the subprocess of a completed start was marked killed when the
\* call was issued, and the call has returned the ServerInfo of a later start.
C3_Witness ==
  \E t \in Threads, c \in Starts :
    HoldsInfo(t) /\ c \in deadAt[t] /\ sst[c] = "ok" /\ killed[c] /\ waitS[t] > c

\* C4: a failed start attempt is not kept cached: this.startPromise never
\* holds a failed attempt, no call joins one, and a call rejected by a start
\* failure was rejected by an attempt still pending, or not yet begun, when
\* the call was issued.
C4_FailedStartNotReplayed ==
  /\ startPromise # 0 => sst[startPromise] # "fail"
  /\ \A t \in Threads : ~issuedFailed[t]

\* C4's case: after a start attempt failed, a later call began a start of its own.
C4_Witness ==
  \E t \in Threads, a \in Starts :
    pc[t] = "E_await2" /\ sst[a] = "fail" /\ a < waitS[t] /\ a \notin pendAt[t]

\* C5: a failed negotiation is not kept cached: ensureClient() never hands a
\* caller a negotiation that had already failed.
C5_FailedNegotiationNotReplayed ==
  \A t \in Threads : ~joinedFailed[t]

\* C6: whenever takeScreenshot() invokes the remote tool, the client it uses
\* was negotiated against the ServerInfo that its ensureServer() returned:
\* the same port, and so the same url.
C6_ClientMatchesServer ==
  \A t \in Threads : pc[t] = "T_call" => port[clSrv[waitC[t]]] = port[waitS[t]]

\* C7: a connected session is reused while its backing process keeps running:
\* when ensureClient() is called while a connected, unclosed session exists
\* whose subprocess is running and unsignalled, the caller gets that session.
C7_SessionReused ==
  [][\A t \in Threads :
       (pc[t] = "T_afterServer" /\ pc'[t] = "T_awaitC")
         => \A k \in Clients :
              (cl[k] = "ok" /\ ~clClosed[k] /\ Unsignalled(clSrv[k])) => waitC'[t] = k]_vars

\* C8: the subprocess of a start that timed out was sent SIGTERM and is not
\* left running on its own: while it runs, either the 2 s escalation is still
\* pending or SIGKILL has been sent.
C8_TimedOutStartNotOrphaned ==
  \A a \in Starts :
    (sst[a] = "fail" /\ Running(a))
      => ("SIGTERM" \in sigs[a] /\ (timer[a] \/ "SIGKILL" \in sigs[a]))

\* C9: termination is two-phase: when the 2 s timer armed with SIGTERM fires
\* and the subprocess is still running, SIGKILL is sent; SIGKILL is sent only
\* to a subprocess that was sent SIGTERM before.
C9_TwoPhaseTermination ==
  [][\A c \in Starts :
       /\ (timer[c] /\ ~timer'[c] /\ Running(c)) => "SIGKILL" \in sigs'[c]
       /\ ("SIGKILL" \in sigs'[c] /\ "SIGKILL" \notin sigs[c]) => "SIGTERM" \in sigs[c]]_vars

\* C10: takeScreenshot() rejects only when ensureServer() or ensureClient()
\* fails; every other failure resolves to null.
C10_RejectsOnlyForResources ==
  \A t \in Threads :
    (pc[t] = "done" /\ op[t] = "takeScreenshot")
      => res[t] \in {"rejStart", "rejClient", "null", "expected", "linked"}

\* C11: stop() is idempotent and safe when nothing is running: with no cached
\* start and no cached client it completes at once, sends no signal and closes
\* nothing; a stop() delivers SIGTERM only to a subprocess that was sent none
\* before; a stop() whose client.close() threw still sends SIGTERM to the
\* running, unsignalled subprocess it awaited, and completes.
C11_StopIdempotent ==
  [][\A t \in Threads :
       /\ (pc[t] = "idle" /\ op'[t] = "stop" /\ startPromise = 0 /\ clientPromise = 0)
            => (pc'[t] = "done" /\ res'[t] = "void"
                /\ sigs' = sigs /\ nTerm' = nTerm /\ clClosed' = clClosed)
       /\ (pc[t] = "S_resumeS" /\ pc'[t] = "done")
            => /\ \A c \in Starts : nTerm'[c] # nTerm[c] => (nTerm[c] = 0 /\ sigs[c] = {})
               /\ (waitC[t] # 0 /\ closeErr[waitC[t]] /\ sst[waitS[t]] = "ok" /\ Unsignalled(waitS[t]))
                    => (res'[t] = "void" /\ "SIGTERM" \in sigs'[waitS[t]])]_vars

\* C11's case: a stop() issued after the subprocess had been marked killed by
\* an earlier stop(), whose client.close() threw, has completed; the
\* subprocess still runs and was delivered one SIGTERM.
C11_Witness ==
  \E t \in Threads, c \in Starts :
    /\ pc[t] = "done" /\ op[t] = "stop" /\ res[t] = "void" /\ waitS[t] = c
    /\ c \in deadAt[t] /\ killed[c] /\ Running(c) /\ nTerm[c] = 1
    /\ waitC[t] # 0 /\ closeErr[waitC[t]]

\* The started subprocesses that a stop() has marked killed.
StoppedNow == {c \in Starts : sst[c] = "ok" /\ killed[c]}
\* Caller t holds the client of negotiation waitC[t].
HoldsClient(t) == pc[t] \in {"T_mkdir", "T_call"}

\* C12: after stop() has sent its signal to the running subprocess, a call of
\* ensureServer() or takeScreenshot() issued later never returns the
\* ServerInfo of the stopped subprocess, only that of a start begun after it,
\* and never uses a client negotiated against the stopped subprocess, whether
\* the exit event of that subprocess has been delivered or not.
C12_FreshAfterStop ==
  \A t \in Threads, c \in StoppedNow :
    c \in deadAt[t] =>
      /\ HoldsInfo(t) => waitS[t] > c
      /\ HoldsClient(t) => clSrv[waitC[t]] > c

\* C12's case: a takeScreenshot() issued after stop() closed the client of a
\* subprocess and marked it killed is about to call the tool, and the exit
\* event of the stopped subprocess has not been delivered.
C12_Witness ==
  \E t \in Threads, c \in StoppedNow, k \in Clients :
    /\ c \in deadAt[t] /\ Running(c) /\ pc[t] = "T_call"
    /\ clSrv[k] = c /\ clClosed[k]

\* C13: a negotiation begins on the primary transport at the server's url;
\* it succeeds when the primary connect succeeds, or, the primary having
\* failed, when the one fallback connect at the url with its trailing /mcp
\* replaced by /sse succeeds; it fails only when the fallback fails too; a
\* caller awaiting it is resumed only with the connected client or, both
\* having failed, with the rejection, which takeScreenshot() passes on.
C13_NegotiationOutcome ==
  [][\A k \in Clients :
       /\ cl'[k] # cl[k]
            => <<cl[k], cl'[k]>> \in {<<"none", "primary">>, <<"primary", "ok">>,
                                      <<"primary", "fallback">>, <<"fallback", "ok">>,
                                      <<"fallback", "fail">>}
       /\ (cl[k] = "none" /\ cl'[k] = "primary") => clPath'[k] = <<"mcp">>
       /\ (cl[k] = "primary" /\ cl'[k] = "fallback") => clPath'[k] = <<"sse">>
       /\ \A t \in Threads :
            (pc[t] = "T_awaitC" /\ waitC[t] = k /\ pc'[t] # "T_awaitC")
              => IF cl[k] = "fail"
                 THEN pc'[t] = "done" /\ res'[t] = "rejClient"
                 ELSE cl[k] = "ok" /\ pc'[t] = "T_mkdir"]_vars

\* C13's case: the primary connect failed, the fallback connected at /sse,
\* and the caller of takeScreenshot() went on with the client.
C13_Witness ==
  \E t \in Threads :
    pc[t] = "T_mkdir" /\ cl[waitC[t]] = "ok" /\ clPath[waitC[t]] = <<"sse">>

\* The ports start..last in ascending order.
Ascending(start, last) ==
  [i \in 1..(IF last >= start THEN last - start + 1 ELSE 0) |-> start + i - 1]

\* C14: findAvailablePort returns the lowest port of start..end on which a
\* listener can bind, having probed the ports from start up to it in ascending
\* order and none above it; it fails as exhausted exactly when no port of the
\* range is free, an empty range included, having probed the whole range.
C14_LowestFreePort ==
  (fn = "findAvailablePort" /\ ret.done) =>
    LET free == {p \in arg.start..arg.end : p \notin arg.busy}
    IN IF free = {}
       THEN ret.port = NoPort /\ ret.probed = Ascending(arg.start, arg.end)
       ELSE /\ ret.port \in free
            /\ \A q \in free : ret.port <= q
            /\ ret.probed = Ascending(arg.start, ret.port)

\* C14's case: the first two ports of a range of three are in use and the
\* third is returned.
C14_Witness ==
  /\ fn = "findAvailablePort" /\ ret.done
  /\ arg.end = arg.start + 2 /\ arg.busy = {arg.start, arg.start + 1}
  /\ ret.port = arg.end

\* The response handling of takeScreenshot has been applied.
Interpreted == fn = "interpret" /\ ret.done
\* The blocks of the response that are image blocks with base64 data.
WithData == {i \in DOMAIN arg.res.content :
               arg.res.content[i].type = "image" /\ arg.res.content[i].data = "base64"}
HasTextBlock == \E i \in DOMAIN arg.res.content : arg.res.content[i].type = "text"
HasLink      == \E i \in DOMAIN arg.res.content : arg.res.content[i].link

\* C15: a response with isError = true yields null, whatever else it carries:
\* no file is written and none is probed.
C15_ErrorPrecedence ==
  (Interpreted /\ arg.res.isError)
    => (ret.saved = "null" /\ ~ret.wrote /\ ret.probed = <<>>)

\* C15's case: the error response also carries an image block with data and
\* a text block with a link to an existing file.
C15_Witness ==
  /\ Interpreted /\ arg.res.isError /\ ret.saved = "null"
  /\ WithData # {} /\ HasLink /\ arg.linkExists /\ arg.writeOk

\* C16 as stated: a non-error response containing an image block with base64
\* data is written to the expected path (the write succeeding) and that path
\* is returned with the mime type of such a block.
C16_AnyImageBlockSaved ==
  (Interpreted /\ ~arg.res.isError /\ WithData # {} /\ arg.writeOk)
    => /\ ret.saved = "expected" /\ ret.wrote
       /\ \E i \in WithData : ret.mimeType = arg.res.content[i].mime

\* C16, amended: a non-error response whose first image block carries
\* non-empty base64 data is written to the expected path (the write
\* succeeding) and that path is returned with the mime type of that block,
\* whatever text blocks or links the response also carries; no file is probed.
C16_FirstImageBlockSaved ==
  (Interpreted /\ ~arg.res.isError /\ arg.writeOk
     /\ FirstOfType(arg.res.content, "image").data = "base64")
    => /\ ret.saved = "expected" /\ ret.wrote /\ ret.probed = <<>>
       /\ ret.mimeType = FirstOfType(arg.res.content, "image").mime

\* C16's case: the first image block has data and a mime type, and the
\* response also carries a text block with a link to an existing file.
C16_Witness ==
  /\ Interpreted /\ ~arg.res.isError /\ arg.writeOk /\ arg.linkExists
  /\ FirstOfType(arg.res.content, "image").data = "base64"
  /\ HasLink /\ ret.saved = "expected" /\ ret.mimeType = "image/png"

\* C17: for a non-error response without usable image data and with a text
\* block, the candidates are the linked path (of the first text block, if it
\* has a link) and then the expected path; they are probed in that order and
\* the first that exists is returned, null if none does.
C17_FirstExistingCandidate ==
  (Interpreted /\ ~arg.res.isError /\ HasTextBlock
     /\ FirstOfType(arg.res.content, "image").data # "base64")
    => LET linked == FirstOfType(arg.res.content, "text").link
       IN /\ ret.saved = IF linked /\ arg.linkExists THEN "linked"
                         ELSE IF arg.expectedExists THEN "expected" ELSE "null"
          /\ ~ret.wrote
          /\ ret.probed = IF ~linked THEN <<"expected">>
                          ELSE IF arg.linkExists THEN <<"linked">>
                          ELSE <<"linked", "expected">>

\* C17's case: the linked file does not exist, the expected one does.
C17_Witness ==
  /\ Interpreted /\ ~arg.res.isError /\ WithData = {}
  /\ ret.probed = <<"linked", "expected">> /\ ret.saved = "expected"

\* C18 as stated: a non-error response with neither an image block with
\* base64 data nor a text block yields null, and no file is probed.
C18_NullWithoutImageOrText ==
  (Interpreted /\ ~arg.res.isError /\ WithData = {} /\ ~HasTextBlock)
    => (ret.saved = "null" /\ ret.probed = <<>>)

\* C18, amended: for such a response the expected path alone is probed, and
\* it is returned as savedPath when the file exists, null otherwise.
C18_ExpectedPathStillProbed ==
  (Interpreted /\ ~arg.res.isError /\ WithData = {} /\ ~HasTextBlock)
    => /\ ret.probed = <<"expected">> /\ ~ret.wrote
       /\ ret.saved = IF arg.expectedExists THEN "expected" ELSE "null"

\* C18's case: neither image data nor text, and the expected file exists.
C18_Witness ==
  /\ Interpreted /\ ~arg.res.isError /\ WithData = {} /\ ~HasTextBlock
  /\ arg.expectedExists /\ ret.saved = "expected"

\* C19: for every timeout_ms the argument that follows --timeout-navigation
\* is the decimal string of timeout_ms clamped to 1000..60000: 1000 below the
\* range, 60000 above it, timeout_ms itself inside; the flag occurs once.
C19_NavigationTimeoutClamped ==
  (fn = "buildPlaywrightArgs" /\ ret.done) =>
    LET at      == {i \in DOMAIN ret.args : ret.args[i] = "--timeout-navigation"}
        clamped == IF arg.timeoutMs < 1000 THEN 1000
                   ELSE IF arg.timeoutMs > 60000 THEN 60000 ELSE arg.timeoutMs
    IN /\ Cardinality(at) = 1
       /\ \A i \in at : i + 1 \in DOMAIN ret.args /\ ret.args[i + 1] = ToString(clamped)
       /\ clamped \in 1000..60000

\* C19's case: a negative timeout_ms is passed as 1000.
C19_Witness ==
  /\ fn = "buildPlaywrightArgs" /\ ret.done /\ arg.timeoutMs < 0
  /\ \E i \in DOMAIN ret.args : ret.args[i] = "--timeout-navigation" /\ ret.args[i + 1] = "1000"
====
